---------------------------- MODULE Spec2Model ----------------------------
(***************************************************************************)
(* A model of imager.py: class Imager, which computes from a source image  *)
(* and a fixed template size one of the placement strategies (fit and      *)
(* crop, proportional resize, bordered foreground on a blurred background) *)
(* and carries it out with the imaging library's primitives.               *)
(*                                                                         *)
(* A raster is modelled by its geometry and colour mode; pixel values play *)
(* no part in any decision of the code.  Python's float expressions over   *)
(* integers are modelled by exact integer arithmetic:                      *)
(*   x < 0.75 * t         as  4 * x < 3 * t                                *)
(*   int(t * 0.8)         as  (4 * t) \div 5                               *)
(*   a / b < c / d        as  a * d < c * b      (b, d > 0)                *)
(*   int(a * b / c)       as  (a * b) \div c     (a, b >= 0, c > 0)        *)
(* which agree with IEEE doubles over the sizes the model enumerates.  A   *)
(* division by zero raises ZeroDivisionError, as in Python.                *)
(***************************************************************************)
EXTENDS Integers, Sequences, FiniteSets, TLC

VARIABLES
    imager,     \* self: output_width, output_height, config (set by __init__)
    pc,         \* position of the call to process_image
    image,      \* the raster being processed
    strategy,   \* the method _resize_to_template dispatched to
    geom,       \* geometry computed by the strategy
    result      \* what process_image hands to its caller

vars == <<imager, pc, image, strategy, geom, result>>

-----------------------------------------------------------------------------
(* Bounds of the enumeration *)

MaxTemplate == 6
MaxImage == 8
MaxBorder == 2

(* Program constants *)

DefaultWidth == 700
DefaultHeight == 365
DefaultBorderWidth == 1
SCALE_UP_LIMIT == 2

-----------------------------------------------------------------------------
(* Values *)

Min(a, b) == IF a <= b THEN a ELSE b
Max(a, b) == IF a >= b THEN a ELSE b
Abs(a) == IF a >= 0 THEN a ELSE -a

Modes == {"P", "RGBA", "RGB", "L"}

Raster(w, h, m) == [raster |-> TRUE, width |-> w, height |-> h, mode |-> m]

NotARaster == [raster |-> FALSE, width |-> 0, height |-> 0, mode |-> "none"]

Resized(img, w, h) == [img EXCEPT !.width = w, !.height = h]

NoSize == <<-1, -1>>
NoBox == <<-1, -1, -1, -1>>

\* Exceptions the two try blocks of the class catch (lines 89 and 264).
CaughtExceptions == {"OSError", "ValueError", "UnidentifiedImageError"}

\* The imaging library on degenerate geometry (a raster or a target size
\* with a zero side) and on an exact tie of thumbnail's aspect rounding:
\* the exception it raises and the side the tie falls depend on the library
\* version and on float rounding, so both are choices of the environment.
LibraryChoices ==
    [degenerate : {"ValueError", "ZeroDivisionError"}, tie : {"floor", "ceil"}]


\* What a method hands back: the exception it raised ("none": it returned)
\* and the geometry it computed.
EmptyGeom ==
    [method |-> "none", scaled |-> NoSize, crop_box |-> NoBox,
     ratio |-> <<0, 1>>, fg |-> NoSize, border |-> -1, bordered |-> NoSize,
     canvas |-> NoSize, bg_box |-> NoBox, paste |-> NoSize, out |-> NoSize]

Outcome(exc, g) == [exc |-> exc, geom |-> g]

-----------------------------------------------------------------------------
(* The imaging library's primitives, by their effect on geometry *)

\* Image.resize: a target with a side below 1 is rejected.
ResizeError(w, h) == IF w < 1 \/ h < 1 THEN "ValueError" ELSE "none"

\* Image.crop: the result has the size of the box, whatever it covers of
\* the source; a box with right < left or lower < upper is rejected.
CropError(box) ==
    IF box[3] < box[1] \/ box[4] < box[2] THEN "ValueError" ELSE "none"

CropSize(box) == <<box[3] - box[1], box[4] - box[2]>>

IsDegenerate(img) == img.width = 0 \/ img.height = 0

-----------------------------------------------------------------------------
(* Template Classifier *)

is_template_landscape(self) == self.output_width > self.output_height

is_template_portrait(self) == self.output_width < self.output_height

is_image_portrait(img) == img.width < img.height

is_image_landscape(img) == img.width > img.height

is_image_square(img) == ~is_image_portrait(img) /\ ~is_image_landscape(img)

\* Faulty variant: both sides must be short for the image to count as small.
is_image_too_small_on_both_axes(self, img) ==
    /\ 4 * img.width < 3 * self.output_width
    /\ 4 * img.height < 3 * self.output_height

is_image_too_small_for_template(self, img) ==
    \/ 4 * img.width < 3 * self.output_width
    \/ 4 * img.height < 3 * self.output_height

\* Faulty variant: the widths are compared instead of the aspect ratios.
is_image_too_narrow_for_template_by_sides(self, img) ==
    img.width < self.output_width

\* Both ratios are float divisions; the caller checks img.height # 0.
is_image_too_narrow_for_template(self, img) ==
    img.width * self.output_height < self.output_width * img.height

is_image_too_wide_for_template(self, img) ==
    img.width * self.output_height > self.output_width * img.height

_convert_image_mode(img) ==
    LET a == IF img.mode = "P" THEN [img EXCEPT !.mode = "RGBA"] ELSE img
    IN  IF a.mode = "RGBA" THEN [a EXCEPT !.mode = "RGB"] ELSE a

-----------------------------------------------------------------------------
(* Proportional Resize *)

\* Faulty variant: the width is matched whatever the template's orientation.
_resize_proportionally_by_width(self, img) ==
    IF img.width = 0 THEN Outcome("ZeroDivisionError", EmptyGeom)
    ELSE LET projected_h == (self.output_width * img.height) \div img.width
             size == <<self.output_width, projected_h>>
         IN  Outcome(ResizeError(size[1], size[2]),
                     [EmptyGeom EXCEPT !.method = "proportional",
                                       !.scaled = size, !.out = size])

_resize_proportionally(self, img) ==
    IF is_template_landscape(self)
    THEN IF img.width = 0 THEN Outcome("ZeroDivisionError", EmptyGeom)
         ELSE LET projected_h == (self.output_width * img.height) \div img.width
                  size == <<self.output_width, projected_h>>
              IN  Outcome(ResizeError(size[1], size[2]),
                          [EmptyGeom EXCEPT !.method = "proportional",
                                            !.scaled = size, !.out = size])
    ELSE IF img.height = 0 THEN Outcome("ZeroDivisionError", EmptyGeom)
         ELSE LET projected_w == (self.output_height * img.width) \div img.height
                  size == <<projected_w, self.output_height>>
              IN  Outcome(ResizeError(size[1], size[2]),
                          [EmptyGeom EXCEPT !.method = "proportional",
                                            !.scaled = size, !.out = size])

-----------------------------------------------------------------------------
(* Fit-and-Crop Engine *)

\* resize to `size`, then crop to `box`
FitAndCrop(size, box) ==
    LET err == IF ResizeError(size[1], size[2]) # "none"
               THEN ResizeError(size[1], size[2]) ELSE CropError(box)
    IN  Outcome(err, [EmptyGeom EXCEPT !.method = "fit_and_crop",
                                       !.scaled = size, !.crop_box = box,
                                       !.out = CropSize(box)])

\* Faulty variant: the crop is centred (half offset) instead of the quarter offset.
_fit_portrait_to_landscape_centred(self, img) ==
    IF img.width = 0 THEN Outcome("ZeroDivisionError", EmptyGeom)
    ELSE LET projected_w == self.output_width
             projected_h == (self.output_width * img.height) \div img.width
             top == (projected_h - self.output_height) \div 2
         IN  FitAndCrop(<<projected_w, projected_h>>,
                        <<0, top, self.output_width, top + self.output_height>>)

_fit_portrait_to_landscape(self, img) ==
    IF img.width = 0 THEN Outcome("ZeroDivisionError", EmptyGeom)
    ELSE LET projected_w == self.output_width
             projected_h == (self.output_width * img.height) \div img.width
             top == (projected_h - self.output_height) \div 4
         IN  FitAndCrop(<<projected_w, projected_h>>,
                        <<0, top, self.output_width, top + self.output_height>>)

\* Faulty variant: the crop is centred (half offset) instead of the quarter offset.
_fit_landscape_to_portrait_centred(self, img) ==
    IF img.height = 0 THEN Outcome("ZeroDivisionError", EmptyGeom)
    ELSE LET projected_h == self.output_height
             projected_w == (self.output_height * img.width) \div img.height
             left == (projected_w - self.output_width) \div 2
         IN  FitAndCrop(<<projected_w, projected_h>>,
                        <<left, 0, left + self.output_width, self.output_height>>)

_fit_landscape_to_portrait(self, img) ==
    IF img.height = 0 THEN Outcome("ZeroDivisionError", EmptyGeom)
    ELSE LET projected_h == self.output_height
             projected_w == (self.output_height * img.width) \div img.height
             left == (projected_w - self.output_width) \div 4
         IN  FitAndCrop(<<projected_w, projected_h>>,
                        <<left, 0, left + self.output_width, self.output_height>>)

_fit_wide_to_landscape(self, img) ==
    IF self.config.force_fit
    THEN IF img.height = 0 THEN Outcome("ZeroDivisionError", EmptyGeom)
         ELSE LET projected_w == (self.output_height * img.width) \div img.height
                  left == (projected_w - self.output_width) \div 2
              IN  FitAndCrop(<<projected_w, self.output_height>>,
                             <<left, 0, left + self.output_width,
                               self.output_height>>)
    ELSE _resize_proportionally(self, img)

\* Faulty variant: the crop box ends as far from the bottom as it starts from the
\* top, so an odd overflow leaves one row too many.
_fit_tall_to_portrait_symmetric_box(self, img) ==
    IF self.config.force_fit
    THEN IF img.width = 0 THEN Outcome("ZeroDivisionError", EmptyGeom)
         ELSE LET projected_h == (self.output_width * img.height) \div img.width
                  top == (projected_h - self.output_height) \div 2
              IN  FitAndCrop(<<self.output_width, projected_h>>,
                             <<0, top, self.output_width, projected_h - top>>)
    ELSE _resize_proportionally(self, img)

_fit_tall_to_portrait(self, img) ==
    IF self.config.force_fit
    THEN IF img.width = 0 THEN Outcome("ZeroDivisionError", EmptyGeom)
         ELSE LET projected_h == (self.output_width * img.height) \div img.width
                  top == (projected_h - self.output_height) \div 2
              IN  FitAndCrop(<<self.output_width, projected_h>>,
                             <<0, top, self.output_width,
                               top + self.output_height>>)
    ELSE _resize_proportionally(self, img)

-----------------------------------------------------------------------------
(* Composite Builder: foreground *)

\* A float ratio num/den, den > 0, kept exact as a pair.
RatioLeq(a, b) == a[1] * b[2] <= b[1] * a[2]

RatioMin(a, b) == IF RatioLeq(a, b) THEN a ELSE b

_should_scale_up(img, max_w, max_h) == img.width < max_w /\ img.height < max_h

\* Faulty variant: the fit ratio is applied without the SCALE_UP_LIMIT cap.
_scale_up_image_uncapped(img, max_w, max_h) ==
    IF img.width = 0 \/ img.height = 0
    THEN [exc |-> "ZeroDivisionError", img |-> img, ratio |-> <<0, 1>>]
    ELSE LET ratio_w == <<max_w, img.width>>
             ratio_h == <<max_h, img.height>>
             scale_ratio == RatioMin(ratio_w, ratio_h)
             new_w == (img.width * scale_ratio[1]) \div scale_ratio[2]
             new_h == (img.height * scale_ratio[1]) \div scale_ratio[2]
         IN  IF new_w > 0 /\ new_h > 0
             THEN [exc |-> "none", img |-> Resized(img, new_w, new_h),
                   ratio |-> scale_ratio]
             ELSE [exc |-> "none", img |-> img, ratio |-> scale_ratio]

\* Returns the exception, the resized raster and the ratio applied.
_scale_up_image(img, max_w, max_h) ==
    IF img.width = 0 \/ img.height = 0
    THEN [exc |-> "ZeroDivisionError", img |-> img, ratio |-> <<0, 1>>]
    ELSE LET ratio_w == <<max_w, img.width>>
             ratio_h == <<max_h, img.height>>
             fit_ratio == RatioMin(ratio_w, ratio_h)
             scale_ratio == RatioMin(fit_ratio, <<SCALE_UP_LIMIT, 1>>)
             new_w == (img.width * scale_ratio[1]) \div scale_ratio[2]
             new_h == (img.height * scale_ratio[1]) \div scale_ratio[2]
         IN  IF new_w > 0 /\ new_h > 0
             THEN [exc |-> "none", img |-> Resized(img, new_w, new_h),
                   ratio |-> scale_ratio]
             ELSE [exc |-> "none", img |-> img, ratio |-> scale_ratio]

\* thumbnail's round_aspect: of floor and ceiling of num/den, the one whose
\* key is smaller (the floor on equal keys, up to float rounding: lib.tie),
\* and at least 1.  keyf and keyc are the two keys as exact fractions.
RoundAspect(num, den, keyf, keyc, lib) ==
    LET f == num \div den
        c == IF num % den = 0 THEN f ELSE f + 1
        lt == keyf[1] * keyc[2] < keyc[1] * keyf[2]
        eq == keyf[1] * keyc[2] = keyc[1] * keyf[2]
        pick == IF f = c \/ lt THEN f
                ELSE IF eq THEN (IF lib.tie = "floor" THEN f ELSE c)
                ELSE c
    IN  Max(pick, 1)

\* Image.thumbnail((x, y)): shrink-only, aspect preserving; the size it
\* leaves the raster with.
ThumbnailSize(img, x, y, lib) ==
    LET w == img.width
        h == img.height
    IN  IF x * h >= w * y
        THEN \* x / y >= aspect: the height binds, x = round(y * aspect),
             \* key(n) = |aspect - n / y|
             LET f == (y * w) \div h
             IN  <<RoundAspect(y * w, h,
                               <<Abs(w * y - f * h), 1>>,
                               <<Abs(w * y - (f + 1) * h), 1>>, lib), y>>
        ELSE \* the width binds, y = round(x / aspect),
             \* key(n) = 0 if n = 0 else |aspect - x / n|
             LET f == (x * h) \div w
             IN  <<x, IF f = 0 THEN 1
                      ELSE RoundAspect(x * h, w,
                                       <<Abs(w * f - x * h), f>>,
                                       <<Abs(w * (f + 1) - x * h), f + 1>>,
                                       lib)>>

Thumbnail(img, x, y, lib) ==
    IF x >= img.width /\ y >= img.height
    THEN [exc |-> "none", img |-> img, ratio |-> <<1, 1>>]
    ELSE IF IsDegenerate(img) \/ x = 0 \/ y = 0
    THEN [exc |-> lib.degenerate, img |-> img, ratio |-> <<1, 1>>]
    ELSE [exc |-> "none", ratio |-> <<1, 1>>,
          img |-> [img EXCEPT !.width = ThumbnailSize(img, x, y, lib)[1],
                              !.height = ThumbnailSize(img, x, y, lib)[2]]]

_resize_foreground(self, img, lib) ==
    LET max_w == (self.output_width * 4) \div 5
        max_h == (self.output_height * 4) \div 5
    IN  IF _should_scale_up(img, max_w, max_h)
        THEN _scale_up_image(img, max_w, max_h)
        ELSE [Thumbnail(img, max_w, max_h, lib) EXCEPT !.ratio = <<0, 1>>]

\* ImageOps.autocontrast keeps the size.
Autocontrast(img, lib) == IF IsDegenerate(img) THEN lib.degenerate ELSE "none"

_calculate_safe_border_width(self, img) ==
    LET max_allowed_border ==
            Min((self.output_width - img.width) \div 2,
                (self.output_height - img.height) \div 2)
        border_width == self.config.foreground_border_width
    IN  IF 0 < max_allowed_border /\ max_allowed_border < border_width
        THEN max_allowed_border
        ELSE border_width

\* Returns the bordered raster and the border applied (0: none).
_apply_border(self, img) ==
    IF ~self.config.foreground_border \/ self.config.foreground_border_width <= 0
    THEN [img |-> img, border |-> 0]
    ELSE LET border_width == _calculate_safe_border_width(self, img)
         IN  IF border_width > 0
             THEN [img |-> Resized(img, img.width + 2 * border_width,
                                        img.height + 2 * border_width),
                   border |-> border_width]
             ELSE [img |-> img, border |-> 0]

\* copy, resize, autocontrast, border: `resized` is what _resize_foreground
\* handed back.
Foreground(self, img, lib, resized) ==
    LET g == [EmptyGeom EXCEPT !.method = "composite",
                               !.ratio = resized.ratio,
                               !.fg = <<resized.img.width, resized.img.height>>]
        b == _apply_border(self, resized.img)
    IN  IF resized.exc # "none" THEN [exc |-> resized.exc, img |-> img, geom |-> g]
        ELSE IF Autocontrast(resized.img, lib) # "none"
        THEN [exc |-> Autocontrast(resized.img, lib), img |-> img, geom |-> g]
        ELSE [exc |-> "none", img |-> b.img,
              geom |-> [g EXCEPT !.border = b.border,
                                 !.bordered = <<b.img.width, b.img.height>>]]

_create_foreground_image(self, img, lib) ==
    Foreground(self, img, lib, _resize_foreground(self, img, lib))

-----------------------------------------------------------------------------
(* Composite Builder: background *)

\* Faulty variant: the branches are swapped, so the canvas is contained in the
\* template instead of covering it.
_calculate_landscape_canvas_contain(self, img) ==
    IF img.height = 0 THEN [exc |-> "ZeroDivisionError", size |-> NoSize]
    ELSE IF is_image_too_narrow_for_template(self, img)
    THEN [exc |-> "none",
          size |-> <<(self.output_height * img.width) \div img.height,
                     self.output_height>>]
    ELSE IF img.width = 0 THEN [exc |-> "ZeroDivisionError", size |-> NoSize]
         ELSE [exc |-> "none",
               size |-> <<self.output_width,
                          (self.output_width * img.height) \div img.width>>]

\* image_ratio = image.width / image.height is computed first.
_calculate_landscape_canvas(self, img) ==
    IF img.height = 0 THEN [exc |-> "ZeroDivisionError", size |-> NoSize]
    ELSE IF is_image_too_narrow_for_template(self, img)
    THEN \* image is narrower, fit by width
         IF img.width = 0 THEN [exc |-> "ZeroDivisionError", size |-> NoSize]
         ELSE [exc |-> "none",
               size |-> <<self.output_width,
                          (self.output_width * img.height) \div img.width>>]
    ELSE \* image is wider, fit by height
         [exc |-> "none",
          size |-> <<(self.output_height * img.width) \div img.height,
                     self.output_height>>]

_calculate_portrait_canvas(self, img) ==
    IF img.height = 0 THEN [exc |-> "ZeroDivisionError", size |-> NoSize]
    ELSE IF is_image_too_wide_for_template(self, img)
    THEN \* image is wider, fit by height
         [exc |-> "none",
          size |-> <<(self.output_height * img.width) \div img.height,
                     self.output_height>>]
    ELSE \* image is narrower, fit by width
         IF img.width = 0 THEN [exc |-> "ZeroDivisionError", size |-> NoSize]
         ELSE [exc |-> "none",
               size |-> <<self.output_width,
                          (self.output_width * img.height) \div img.width>>]

_calculate_canvas_dimensions(self, img) ==
    IF is_template_landscape(self)
    THEN _calculate_landscape_canvas(self, img)
    ELSE _calculate_portrait_canvas(self, img)

\* The canvas raster's size: a blank template-sized one when the computed
\* size is not positive.
_resize_image_for_background(self, size) ==
    IF size[1] <= 0 \/ size[2] <= 0
    THEN <<self.output_width, self.output_height>>
    ELSE size

_calculate_background_crop_box(self, canvas) ==
    LET left == Max(0, (canvas[1] - self.output_width) \div 2)
        top == Max(0, (canvas[2] - self.output_height) \div 2)
        right == Min(canvas[1], left + self.output_width)
        bottom == Min(canvas[2], top + self.output_height)
    IN  <<left, top, right, bottom>>

\* crop, then resize to the template when the crop's size differs from it
_crop_image_and_ensure_size(self, crop_box) ==
    IF CropError(crop_box) # "none"
    THEN [exc |-> CropError(crop_box), size |-> NoSize]
    ELSE IF CropSize(crop_box) # <<self.output_width, self.output_height>>
    THEN [exc |-> ResizeError(self.output_width, self.output_height),
          size |-> <<self.output_width, self.output_height>>]
    ELSE [exc |-> "none", size |-> CropSize(crop_box)]

\* resize to the canvas `size`, centre-crop, ensure the template size
Background(self, g, size, canvas) ==
    LET crop_box == _calculate_background_crop_box(self, canvas)
        background == _crop_image_and_ensure_size(self, crop_box)
    IN  Outcome(background.exc,
                [g EXCEPT !.canvas = size, !.bg_box = crop_box,
                          !.out = background.size])

BackgroundOn(self, g, dims) ==
    IF dims.exc # "none" THEN Outcome(dims.exc, g)
    ELSE Background(self, g, dims.size,
                    _resize_image_for_background(self, dims.size))

\* The Gaussian blur keeps the size.  `g` carries the foreground's geometry.
_create_background_image(self, img, g) ==
    BackgroundOn(self, g, _calculate_canvas_dimensions(self, img))

-----------------------------------------------------------------------------
(* Composite Builder *)

\* paste keeps the background's size and clips the foreground to it.
Paste(self, foreground, background) ==
    LET top_left_x == (self.output_width - foreground.img.width) \div 2
        top_left_y == (self.output_height - foreground.img.height) \div 2
    IN  IF background.exc # "none" THEN background
        ELSE Outcome("none",
                     [background.geom EXCEPT !.paste = <<top_left_x, top_left_y>>])

Compose(self, img, foreground) ==
    IF foreground.exc # "none" THEN Outcome(foreground.exc, foreground.geom)
    ELSE Paste(self, foreground,
               _create_background_image(self, img, foreground.geom))

\* An exception of CaughtExceptions is turned into a returned None by the
\* callers' try blocks (see Returned); any other propagates.
_create_combo(self, img, lib) ==
    Compose(self, img, _create_foreground_image(self, img, lib))

-----------------------------------------------------------------------------
(* Strategy Selector *)

Strategies ==
    {"_create_combo", "_fit_portrait_to_landscape", "_fit_landscape_to_portrait",
     "_fit_wide_to_landscape", "_fit_tall_to_portrait"}

\* Faulty variant: the orientation test of the portrait handler, pasted unchanged.
_handle_landscape_template_landscape_test(self, img) ==
    IF ~is_image_landscape(img) /\ img.height = 0 THEN "ZeroDivisionError"
    ELSE IF is_image_landscape(img) \/ is_image_too_narrow_for_template(self, img)
    THEN (IF self.config.force_fit THEN "_fit_portrait_to_landscape"
          ELSE "_create_combo")
    ELSE "_fit_wide_to_landscape"

\* The method the handler calls; "ZeroDivisionError" when the aspect test
\* divides by a zero height.
_handle_landscape_template(self, img) ==
    IF ~is_image_portrait(img) /\ img.height = 0 THEN "ZeroDivisionError"
    ELSE IF is_image_portrait(img) \/ is_image_too_narrow_for_template(self, img)
    THEN (IF self.config.force_fit THEN "_fit_portrait_to_landscape"
          ELSE "_create_combo")
    ELSE "_fit_wide_to_landscape"

\* Faulty variant: force_fit is not consulted; a mismatched source is always cropped.
_handle_portrait_template_always_fit(self, img) ==
    IF ~is_image_landscape(img) /\ img.height = 0 THEN "ZeroDivisionError"
    ELSE IF is_image_landscape(img) \/ is_image_too_wide_for_template(self, img)
    THEN "_fit_landscape_to_portrait"
    ELSE "_fit_tall_to_portrait"

_handle_portrait_template(self, img) ==
    IF ~is_image_landscape(img) /\ img.height = 0 THEN "ZeroDivisionError"
    ELSE IF is_image_landscape(img) \/ is_image_too_wide_for_template(self, img)
    THEN (IF self.config.force_fit THEN "_fit_landscape_to_portrait"
          ELSE "_create_combo")
    ELSE "_fit_tall_to_portrait"

\* The dispatch of _resize_to_template on the mode-converted image.
_resize_to_template(self, img) ==
    IF is_image_too_small_for_template(self, img) THEN "_create_combo"
    ELSE IF is_template_landscape(self) THEN _handle_landscape_template(self, img)
    ELSE _handle_portrait_template(self, img)

\* The body of the dispatched method.
Apply(self, method, img, lib) ==
    CASE method = "_create_combo" -> _create_combo(self, img, lib)
      [] method = "_fit_portrait_to_landscape" -> _fit_portrait_to_landscape(self, img)
      [] method = "_fit_landscape_to_portrait" -> _fit_landscape_to_portrait(self, img)
      [] method = "_fit_wide_to_landscape" -> _fit_wide_to_landscape(self, img)
      [] method = "_fit_tall_to_portrait" -> _fit_tall_to_portrait(self, img)
      [] OTHER -> Outcome(method, EmptyGeom)

\* What the caller of process_image gets for a method's outcome: the two try
\* blocks (lines 81-91 and 251-266) turn a caught exception into None.
Returned(o) ==
    IF o.exc = "none" THEN [kind |-> "image", exc |-> "none", size |-> o.geom.out]
    ELSE IF o.exc \in CaughtExceptions
    THEN [kind |-> "None", exc |-> "none", size |-> NoSize]
    ELSE [kind |-> "raise", exc |-> o.exc, size |-> NoSize]

-----------------------------------------------------------------------------
(* Construction and inputs *)

Config(force_fit, border, border_width) ==
    [force_fit |-> force_fit, foreground_border |-> border,
     foreground_border_width |-> border_width]

Configs ==
    {Config(ff, TRUE, bw) : ff \in BOOLEAN, bw \in 0..MaxBorder}
    \cup {Config(ff, FALSE, DefaultBorderWidth) : ff \in BOOLEAN}

\* Template sizes: both sides positive; the default output_size is among them.
Templates ==
    ((1..MaxTemplate) \X (1..MaxTemplate)) \cup {<<DefaultWidth, DefaultHeight>>}

Imager(output_size, config) ==
    [output_width |-> output_size[1], output_height |-> output_size[2],
     config |-> config]

Imagers == {Imager(t, c) : t \in Templates, c \in Configs}

\* Source sizes of the documented scenarios for the default template.
ScenarioSizes ==
    {<<200, 400>>, <<600, 1200>>, <<100, 100>>, <<50, 20>>, <<1400, 365>>,
     <<700, 365>>, <<100, 0>>}

\* Arguments of process_image: rasters (a side may be 0) and a non-raster.
Arguments ==
    {Raster(w, h, m) : w \in 0..MaxImage, h \in 0..MaxImage, m \in Modes}
    \cup {Raster(sz[1], sz[2], "RGB") : sz \in ScenarioSizes}
    \cup {NotARaster}

NoResult == [kind |-> "pending", exc |-> "none", size |-> NoSize]

-----------------------------------------------------------------------------
(* The state machine: one call of process_image on a constructed Imager *)

Init ==
    /\ imager \in Imagers
    /\ pc = "idle"
    /\ image = NotARaster
    /\ strategy = "none"
    /\ geom = EmptyGeom
    /\ result = NoResult

\* process_image, lines 50-60
ProcessImage(arg) ==
    /\ pc = "idle"
    /\ IF ~arg.raster
       THEN /\ result' = [kind |-> "raise", exc |-> "ValueError", size |-> NoSize]
            /\ pc' = "done"
            /\ UNCHANGED image
       ELSE /\ image' = arg
            /\ pc' = "_resize_to_template"
            /\ UNCHANGED result
    /\ UNCHANGED <<imager, strategy, geom>>

\* _resize_to_template up to the call it dispatches to, lines 81-87
ResizeToTemplate ==
    /\ pc = "_resize_to_template"
    /\ image' = _convert_image_mode(image)
    /\ LET m == _resize_to_template(imager, image')
       IN  IF m \in Strategies
           THEN /\ strategy' = m
                /\ pc' = m
                /\ UNCHANGED result
           ELSE /\ result' = Returned(Outcome(m, EmptyGeom))
                /\ pc' = "done"
                /\ UNCHANGED strategy
    /\ UNCHANGED <<imager, geom>>

\* The dispatched method runs and process_image returns its result, or None
\* for a caught exception, or lets the exception through.
Finish(o) ==
    /\ geom' = o.geom
    /\ result' = Returned(o)
    /\ pc' = "done"
    /\ UNCHANGED <<imager, image, strategy>>

CreateCombo ==
    /\ pc = "_create_combo"
    /\ \E lib \in LibraryChoices : Finish(_create_combo(imager, image, lib))

FitPortraitToLandscape ==
    /\ pc = "_fit_portrait_to_landscape"
    /\ Finish(_fit_portrait_to_landscape(imager, image))

FitLandscapeToPortrait ==
    /\ pc = "_fit_landscape_to_portrait"
    /\ Finish(_fit_landscape_to_portrait(imager, image))

FitWideToLandscape ==
    /\ pc = "_fit_wide_to_landscape"
    /\ Finish(_fit_wide_to_landscape(imager, image))

FitTallToPortrait ==
    /\ pc = "_fit_tall_to_portrait"
    /\ Finish(_fit_tall_to_portrait(imager, image))

Next ==
    \/ \E arg \in Arguments : ProcessImage(arg)
    \/ ResizeToTemplate
    \/ CreateCombo
    \/ FitPortraitToLandscape
    \/ FitLandscapeToPortrait
    \/ FitWideToLandscape
    \/ FitTallToPortrait

Spec == Init /\ [][Next]_vars

-----------------------------------------------------------------------------
(* Vocabulary of the properties *)

W == imager.output_width
H == imager.output_height
TemplateSize == <<W, H>>

Done == pc = "done"
Dispatched == pc \in Strategies \cup {"done"}

IsDefaultTemplate == W = DefaultWidth /\ H = DefaultHeight
SourceIs(w, h) == image.raster /\ image.width = w /\ image.height = h
PositiveSource == image.raster /\ image.width > 0 /\ image.height > 0

\* width < 0.75 * W or height < 0.75 * H
TooSmall == 4 * image.width < 3 * W \/ 4 * image.height < 3 * H

\* The source's orientation suits the template: landscape template, image
\* landscape or square and not too narrow; portrait or square template,
\* image not landscape and not too wide.
Compatible ==
    IF W > H
    THEN image.width >= image.height /\ image.width * H >= W * image.height
    ELSE image.width <= image.height /\ image.width * H <= W * image.height

SameOrientationMethod ==
    IF W > H THEN "_fit_wide_to_landscape" ELSE "_fit_tall_to_portrait"

CrossOrientationMethod ==
    IF W > H THEN "_fit_portrait_to_landscape" ELSE "_fit_landscape_to_portrait"

-----------------------------------------------------------------------------
(* C1: output size *)

\* C1 as stated: every image process_image returns has exactly the
\* template's size, for both values of force_fit.
C1_AlwaysTemplateSize ==
    (Done /\ PositiveSource /\ result.kind = "image") => result.size = TemplateSize

\* C1, amended: an image process_image returns has exactly the template's
\* size when it was cropped to fit or composited; with force_fit false a
\* compatible source that is not too small is only resized proportionally,
\* to (W, int(W*h/w)) for a landscape template and to (int(H*w/h), H)
\* otherwise, which is no larger than the template and in general smaller
\* on the other axis.
C1_TemplateSizeUnlessProportional ==
    (Done /\ PositiveSource /\ result.kind = "image") =>
        IF geom.method = "proportional"
        THEN /\ ~imager.config.force_fit
             /\ ~TooSmall /\ Compatible
             /\ result.size = IF W > H
                              THEN <<W, (W * image.height) \div image.width>>
                              ELSE <<(H * image.width) \div image.height, H>>
             /\ result.size[1] <= W /\ result.size[2] <= H
        ELSE result.size = TemplateSize

\* A source wider than the template was scaled and cropped to it.
C1_Witness ==
    /\ Done /\ PositiveSource /\ result.kind = "image"
    /\ geom.method = "fit_and_crop"
    /\ geom.scaled # TemplateSize
    /\ result.size = TemplateSize

-----------------------------------------------------------------------------
(* C2: small images are composited *)

\* C2: a source that is too small for the template (width < 0.75*W or
\* height < 0.75*H) is dispatched to _create_combo whatever force_fit, the
\* template and the orientations are, and no fit or proportional resize is
\* applied to it.
C2_SmallGoesToCombo ==
    (Dispatched /\ image.raster /\ TooSmall) =>
        /\ strategy = "_create_combo"
        /\ geom.method \in {"none", "composite"}
        /\ geom.scaled = NoSize /\ geom.crop_box = NoBox
        /\ (Done => geom.method = "composite")

\* Template 700x365, source 100x100, force_fit on: composited.
C2_Witness ==
    /\ Done /\ IsDefaultTemplate /\ SourceIs(100, 100)
    /\ imager.config.force_fit
    /\ strategy = "_create_combo"
    /\ result.kind = "image" /\ geom.method = "composite"

-----------------------------------------------------------------------------
(* C3: the quarter-offset scenario *)

\* C3 as stated: template 700x365, force_fit on, source 200x400: scaled to
\* 700x1400 and cropped with box (0, 258, 700, 623).
C3_Scenario200x400 ==
    (Done /\ IsDefaultTemplate /\ imager.config.force_fit /\ SourceIs(200, 400)) =>
        /\ geom.scaled = <<700, 1400>>
        /\ geom.crop_box = <<0, 258, 700, 623>>

\* C3, amended: template 700x365, force_fit on: a 200x400 source is too
\* small (200 < 525) and is composited; a portrait source of the same
\* aspect that is not too small, 600x1200, is scaled to 700x1400 and
\* cropped with box (0, 258, 700, 623), top offset (1400-365)//4 = 258.
C3_Scenario600x1200 ==
    (Done /\ IsDefaultTemplate /\ imager.config.force_fit) =>
        /\ SourceIs(200, 400) =>
              /\ strategy = "_create_combo"
              /\ geom.method = "composite" /\ geom.crop_box = NoBox
        /\ SourceIs(600, 1200) =>
              /\ strategy = "_fit_portrait_to_landscape"
              /\ geom.scaled = <<700, 1400>>
              /\ geom.crop_box = <<0, 258, 700, 623>>
              /\ result.kind = "image" /\ result.size = <<700, 365>>

C3_Witness ==
    /\ Done /\ IsDefaultTemplate /\ imager.config.force_fit
    /\ SourceIs(600, 1200)
    /\ strategy = "_fit_portrait_to_landscape"
    /\ result.kind = "image"

-----------------------------------------------------------------------------
(* C4: compatible orientation *)

\* C4 as stated: a source that is not too small and suits the template's
\* orientation is always scaled and cropped to the template size by the
\* same-orientation variant, whatever force_fit is.
C4_CompatibleAlwaysCropped ==
    (Done /\ image.raster /\ ~TooSmall /\ Compatible) =>
        /\ strategy = SameOrientationMethod
        /\ geom.method = "fit_and_crop"
        /\ result.size = TemplateSize

\* C4, amended: such a source is always dispatched to the same-orientation
\* method (_fit_wide_to_landscape, _fit_tall_to_portrait), whatever
\* force_fit is; that method scales and crops to the template size when
\* force_fit is true and only resizes proportionally, without a crop, when
\* force_fit is false (returning None when the proportional size truncates
\* to 0 on an axis).
C4_CompatibleCroppedOrProportional ==
    (Dispatched /\ image.raster /\ ~TooSmall /\ Compatible) =>
        /\ strategy = SameOrientationMethod
        /\ Done =>
            IF imager.config.force_fit
            THEN /\ geom.method = "fit_and_crop"
                 /\ CropSize(geom.crop_box) = TemplateSize
                 /\ result.kind = "image" /\ result.size = TemplateSize
            ELSE /\ geom.method = "proportional"
                 /\ geom.crop_box = NoBox
                 /\ IF geom.scaled[1] > 0 /\ geom.scaled[2] > 0
                    THEN result.kind = "image" /\ result.size = geom.scaled
                    ELSE result.kind = "None"

\* A wide source on a landscape template with force_fit off: resized only.
C4_Witness ==
    /\ Done /\ image.raster /\ ~TooSmall /\ Compatible
    /\ W > H /\ ~imager.config.force_fit
    /\ strategy = "_fit_wide_to_landscape"
    /\ geom.method = "proportional" /\ result.size # TemplateSize

-----------------------------------------------------------------------------
(* C5: mismatched orientation *)

\* C5: a source that is not too small and does not suit the template
\* (landscape template: portrait or too narrow; portrait or square
\* template: landscape or too wide) is scaled and cropped by the
\* cross-orientation variant when force_fit is true and composited when it
\* is false; nothing else is applied to it.
C5_MismatchCrossOrCombo ==
    (Dispatched /\ image.raster /\ ~TooSmall /\ ~Compatible) =>
        IF imager.config.force_fit
        THEN /\ strategy = CrossOrientationMethod
             /\ Done => geom.method = "fit_and_crop"
        ELSE /\ strategy = "_create_combo"
             /\ Done => geom.method = "composite"

\* A landscape source on a portrait template with force_fit off: composited.
C5_Witness ==
    /\ Done /\ image.raster /\ ~TooSmall /\ ~Compatible
    /\ W < H /\ image.width > image.height
    /\ ~imager.config.force_fit
    /\ strategy = "_create_combo" /\ result.kind = "image"

-----------------------------------------------------------------------------
(* C6: quarter and half offsets *)

\* Overflow of the scaled image over the template on each axis.
OverflowX == geom.scaled[1] - W
OverflowY == geom.scaled[2] - H

\* C6: with force_fit true the crop offset on the overflowing axis is
\* floor(overflow/4) in the cross-orientation variants (top after scaling
\* to width W for portrait->landscape, left after scaling to height H for
\* landscape->portrait) and floor(overflow/2) in the same-orientation
\* variants (left for wide->landscape, top for tall->portrait); the other
\* offset is 0 and the crop box is W wide and H high.
C6_QuarterAndHalfOffsets ==
    (Done /\ image.raster /\ imager.config.force_fit /\ strategy # "_create_combo") =>
        /\ geom.method = "fit_and_crop"
        /\ geom.crop_box[3] - geom.crop_box[1] = W
        /\ geom.crop_box[4] - geom.crop_box[2] = H
        /\ strategy = "_fit_portrait_to_landscape" =>
              /\ geom.scaled[1] = W
              /\ geom.crop_box[1] = 0 /\ geom.crop_box[2] = OverflowY \div 4
        /\ strategy = "_fit_landscape_to_portrait" =>
              /\ geom.scaled[2] = H
              /\ geom.crop_box[2] = 0 /\ geom.crop_box[1] = OverflowX \div 4
        /\ strategy = "_fit_wide_to_landscape" =>
              /\ geom.scaled[2] = H
              /\ geom.crop_box[2] = 0 /\ geom.crop_box[1] = OverflowX \div 2
        /\ strategy = "_fit_tall_to_portrait" =>
              /\ geom.scaled[1] = W
              /\ geom.crop_box[1] = 0 /\ geom.crop_box[2] = OverflowY \div 2

\* A cross-orientation crop whose quarter offset differs from the half one.
C6_Witness ==
    /\ Done /\ image.raster /\ imager.config.force_fit
    /\ strategy = "_fit_landscape_to_portrait"
    /\ OverflowX >= 4
    /\ geom.crop_box[1] = OverflowX \div 4
    /\ geom.crop_box[1] # OverflowX \div 2
    /\ result.kind = "image"

-----------------------------------------------------------------------------
(* C7: the border sizer *)

\* min((W - fw)//2, (H - fh)//2) for the resized foreground (fw, fh)
Margin == Min((W - geom.fg[1]) \div 2, (H - geom.fg[2]) \div 2)

BorderApplied == Done /\ image.raster /\ geom.method = "composite" /\ geom.border >= 0

\* C7: with the border enabled and configured width c > 0 the border applied
\* to a foreground with margin m is c when m >= c, m when 0 < m < c and 0
\* when m <= 0, so the bordered foreground never exceeds the template and
\* the composite stays W x H.
C7_BorderFitsTemplate ==
    (BorderApplied /\ imager.config.foreground_border
                   /\ imager.config.foreground_border_width > 0) =>
        /\ geom.border = IF Margin >= imager.config.foreground_border_width
                         THEN imager.config.foreground_border_width
                         ELSE IF Margin > 0 THEN Margin ELSE 0
        /\ geom.bordered[1] <= W /\ geom.bordered[2] <= H
        /\ result.kind = "image" => result.size = TemplateSize

-----------------------------------------------------------------------------
(* C8: the scale-up cap *)

MaxW == (4 * W) \div 5
MaxH == (4 * H) \div 5

ScaledUp ==
    /\ Done /\ PositiveSource /\ strategy = "_create_combo"
    /\ image.width < MaxW /\ image.height < MaxH

\* C8: when the foreground is enlarged (source strictly narrower than
\* int(0.8*W) and strictly shorter than int(0.8*H)) the ratio applied is
\* min(max_w/w, max_h/h, 2.0): the resized foreground, before the border,
\* is the source scaled by it (truncated), at most twice the source and at
\* most int(0.8*W) x int(0.8*H); template 700x365 with source 50x20 gives
\* ratio 2.0 and 100x40.
C8_ScaleUpCapped ==
    ScaledUp =>
        LET n == geom.ratio[1]
            d == geom.ratio[2]
        IN  /\ d > 0
            /\ n * image.width <= MaxW * d
            /\ n * image.height <= MaxH * d
            /\ n <= SCALE_UP_LIMIT * d
            /\ \/ n * image.width = MaxW * d
               \/ n * image.height = MaxH * d
               \/ n = SCALE_UP_LIMIT * d
            /\ geom.fg = <<(image.width * n) \div d, (image.height * n) \div d>>
            /\ geom.fg[1] <= 2 * image.width /\ geom.fg[2] <= 2 * image.height
            /\ geom.fg[1] <= MaxW /\ geom.fg[2] <= MaxH
            /\ (IsDefaultTemplate /\ SourceIs(50, 20)) =>
                  /\ n = 2 * d
                  /\ geom.fg = <<100, 40>>
                  /\ 560 * 20 > 2 * 20 * 50   \* the fit ratio 11.2 exceeds 2

\* Template 700x365, source 50x20: enlarged by the cap, not by the fit ratio.
C8_Witness ==
    /\ ScaledUp /\ IsDefaultTemplate /\ SourceIs(50, 20)
    /\ geom.fg = <<100, 40>>
    /\ result.kind = "image"

-----------------------------------------------------------------------------
(* C9: orientation symmetry *)

TSize(sz) == <<sz[2], sz[1]>>
TBox(b) == <<b[2], b[1], b[4], b[3]>>

TStrategy(m) ==
    CASE m = "_fit_portrait_to_landscape" -> "_fit_landscape_to_portrait"
      [] m = "_fit_landscape_to_portrait" -> "_fit_portrait_to_landscape"
      [] m = "_fit_wide_to_landscape" -> "_fit_tall_to_portrait"
      [] m = "_fit_tall_to_portrait" -> "_fit_wide_to_landscape"
      [] OTHER -> m

\* cross-orientation crop, same-orientation method, or composite
Family(m) ==
    CASE m \in {"_fit_portrait_to_landscape", "_fit_landscape_to_portrait"} -> "cross"
      [] m \in {"_fit_wide_to_landscape", "_fit_tall_to_portrait"} -> "same"
      [] OTHER -> m

TImager(self) ==
    [self EXCEPT !.output_width = self.output_height,
                 !.output_height = self.output_width]

TImage(img) == [img EXCEPT !.width = img.height, !.height = img.width]

\* The call on the transposed template and source selects the transposed
\* strategy (on a square template, which is its own transpose: a strategy
\* of the same family) and produces the transposed scaled size, crop box
\* and result.
MirrorsTransposedCall ==
    LET m == _resize_to_template(TImager(imager), TImage(image))
    IN  /\ W # H => m = TStrategy(strategy)
        /\ Family(m) = Family(strategy)
        /\ \E lib \in LibraryChoices :
              /\ Apply(TImager(imager), m, TImage(image), lib).geom.method
                    = geom.method
              /\ Apply(TImager(imager), m, TImage(image), lib).geom.scaled
                    = TSize(geom.scaled)
              /\ Apply(TImager(imager), m, TImage(image), lib).geom.crop_box
                    = TBox(geom.crop_box)
              /\ Returned(Apply(TImager(imager), m, TImage(image), lib))
                    = [result EXCEPT !.size = TSize(result.size)]

\* C9 as stated: for every template (W,H), source (w,h) and force_fit the
\* strategy and geometry for template (H,W) with source (h,w) are the
\* transpose of those for (W,H) with (w,h).
C9_MirrorEveryTemplate == (Done /\ image.raster) => MirrorsTransposedCall

\* C9, amended: the same for every template that is not square (W # H); a
\* square template is its own transpose and takes the portrait branch for a
\* source and for its transpose alike.
C9_MirrorNonSquareTemplate ==
    (Done /\ image.raster /\ W # H) => MirrorsTransposedCall

\* A (W,H) template fed an (H,W) image, scaled and cropped.
C9_Witness ==
    /\ Done /\ W # H /\ SourceIs(H, W)
    /\ geom.method = "fit_and_crop"
    /\ geom.scaled # TemplateSize
    /\ result.kind = "image"

-----------------------------------------------------------------------------
(* C10: the failure channel *)

\* C10, for the degenerate rasters it names whose outcome the class's own
\* arithmetic decides (a zero side, inside the 80% box on both axes):
\* process_image returns an image or None and no exception reaches the
\* caller; only a non-raster argument raises (ValueError).
C10_NoExceptionEscapes ==
    Done =>
        IF ~image.raster
        THEN result.kind = "raise" /\ result.exc = "ValueError"
        ELSE (IsDegenerate(image) /\ image.width < MaxW /\ image.height < MaxH)
                 => result.kind \in {"image", "None"}

-----------------------------------------------------------------------------
(* C11: the background canvas covers the template *)

\* The canvas size and the centred crop box computed for the current
\* template and source.
CanvasDims == _calculate_canvas_dimensions(imager, image)
CanvasBox == _calculate_background_crop_box(imager, CanvasDims.size)

\* C11: for every template (W,H) and every source with positive sides the
\* canvas (cw,ch) of _calculate_canvas_dimensions covers the template
\* (cw >= W, ch >= H, and cw = W or ch = H) although its scaled side is
\* truncated, so the crop box of _calculate_background_crop_box is centred,
\* exactly W x H and inside the canvas; a composite that reached its
\* background used this canvas and this box and needed no corrective resize.
C11_CanvasCoversTemplate ==
    PositiveSource =>
        LET cw == CanvasDims.size[1]
            ch == CanvasDims.size[2]
        IN  /\ CanvasDims.exc = "none"
            /\ cw >= W /\ ch >= H
            /\ cw = W \/ ch = H
            /\ CanvasBox = <<(cw - W) \div 2, (ch - H) \div 2,
                             (cw - W) \div 2 + W, (ch - H) \div 2 + H>>
            /\ CropSize(CanvasBox) = TemplateSize
            /\ CanvasBox[1] >= 0 /\ CanvasBox[2] >= 0
            /\ CanvasBox[3] <= cw /\ CanvasBox[4] <= ch
            /\ (Done /\ geom.canvas # NoSize) =>
                  /\ geom.canvas = CanvasDims.size
                  /\ geom.bg_box = CanvasBox
                  /\ geom.out = CropSize(geom.bg_box)

\* A composite whose canvas height was truncated and still overflows the
\* template, cropped from a positive top offset.
C11_Witness ==
    /\ Done /\ PositiveSource /\ geom.method = "composite"
    /\ result.kind = "image"
    /\ geom.canvas[1] = W /\ geom.canvas[2] > H
    /\ (W * image.height) % image.width # 0
    /\ geom.bg_box[2] > 0
    /\ geom.bg_box[4] < geom.canvas[2]

-----------------------------------------------------------------------------
(* C12: the crop window stays inside the scaled image *)

\* C12: whenever process_image runs a fit-and-crop (source not too small,
\* variant chosen by the template handlers) the scaled image is at least as
\* large as the template on both axes after truncation, so the crop offsets
\* are >= 0 and offset + template side <= scaled side: the crop window lies
\* inside the scaled image and the result holds no padded pixels.
C12_CropInsideScaled ==
    (Done /\ image.raster /\ strategy \in Strategies \ {"_create_combo"}
          /\ imager.config.force_fit) =>
        /\ PositiveSource /\ ~TooSmall
        /\ geom.method = "fit_and_crop"
        /\ OverflowX >= 0 /\ OverflowY >= 0
        /\ geom.crop_box[1] >= 0 /\ geom.crop_box[2] >= 0
        /\ geom.crop_box[1] + W <= geom.scaled[1]
        /\ geom.crop_box[2] + H <= geom.scaled[2]
        /\ geom.crop_box[3] <= geom.scaled[1]
        /\ geom.crop_box[4] <= geom.scaled[2]
        /\ result.kind = "image" /\ result.size = TemplateSize

\* A tall source on a portrait template whose scaled height was truncated
\* and overflows the template by an odd amount.
C12_Witness ==
    /\ Done /\ image.raster /\ imager.config.force_fit
    /\ strategy = "_fit_tall_to_portrait"
    /\ geom.method = "fit_and_crop"
    /\ (W * image.height) % image.width # 0
    /\ OverflowY % 2 = 1
    /\ geom.crop_box[4] < geom.scaled[2]
    /\ result.kind = "image"

=============================================================================
